---- MODULE Spec2Model ----
(***************************************************************************)
(* The Markdown-to-HTML conversion core of the static site generator:      *)
(* block segmentation and classification (src/src/block_markdown.py), the  *)
(* inline span passes (src/src/inline_markdown.py) and the HTML leaves     *)
(* they are mapped to.                                                     *)
(*                                                                         *)
(* A Python str is a sequence of one-character strings.  A value that may  *)
(* be None is wrapped: None is the empty tuple and Some(v) is <<v>>, so    *)
(* that None and the empty string stay different.  A call that may raise   *)
(* returns Ok(v) or Raise(e).                                              *)
(***************************************************************************)
EXTENDS Integers, Sequences, FiniteSets, TLC

VARIABLES
    fn,          \* the function called last ("start" before the first call)
    delimiter,   \* split_nodes_delimiter: its delimiter argument
    text_type,   \* split_nodes_delimiter: its text_type argument
    old_nodes,   \* the span list handed to the last inline call
    new_nodes,   \* the span list it returned (<<>> when it raised)
    html_nodes,  \* text_to_children: the leaves built from new_nodes
    markdown,    \* markdown_to_blocks: the document text
    blocks,      \* markdown_to_blocks: the blocks returned
    block,       \* block_to_block_type / block_to_html_node: the block
    block_type,  \* block_to_block_type: the type returned
    html_node,   \* block_to_html_node: the node returned, in a tuple
    html,        \* to_html: the text returned
    title,       \* extract_title: the title returned
    raised       \* the exception the last call raised, "none" if it returned

vars == <<fn, delimiter, text_type, old_nodes, new_nodes, html_nodes,
          markdown, blocks, block, block_type, html_node, html, title, raised>>

(***************************************************************************)
(* Values                                                                  *)
(***************************************************************************)
None == <<>>
Some(v) == <<v>>

Ok(v) == [exc |-> "none", val |-> v]
Raise(e) == [exc |-> e, val |-> <<>>]

TextType_TEXT == "text"
TextType_BOLD == "bold"
TextType_ITALIC == "italic"
TextType_CODE == "code"
TextType_LINK == "link"
TextType_IMAGE == "image"
TextType == {TextType_TEXT, TextType_BOLD, TextType_ITALIC, TextType_CODE,
             TextType_LINK, TextType_IMAGE}

TextNode(text, ttype, url) == [text |-> text, text_type |-> ttype, url |-> url]

LeafNode(tag, value, props) ==
    [class |-> "LeafNode", tag |-> tag, value |-> value, children |-> None,
     props |-> props]

ParentNode(tag, children, props) ==
    [class |-> "ParentNode", tag |-> tag, value |-> None,
     children |-> children, props |-> props]

(***************************************************************************)
(* Python's str and list operations, as the code uses them                 *)
(***************************************************************************)
\* the ASCII characters str.strip() and str.lstrip() remove
Whitespace == {" ", "\n", "\t", "\r", "\f"}

\* the backtick character (the lexer accepts none inside a string)
BACKTICK == "<backtick>"

startswith(s, prefix) ==
    /\ Len(prefix) <= Len(s)
    /\ SubSeq(s, 1, Len(prefix)) = prefix

endswith(s, suffix) ==
    /\ Len(suffix) <= Len(s)
    /\ SubSeq(s, Len(s) - Len(suffix) + 1, Len(s)) = suffix

\* s[i:] of Python, with i counted from 0
slice_from(s, i) == SubSeq(s, i + 1, Len(s))

\* 1-based index of the first occurrence of sub in s, 0 when there is none
find(s, sub) ==
    LET at == {i \in 1..(Len(s) - Len(sub) + 1) :
                    SubSeq(s, i, i + Len(sub) - 1) = sub}
    IN  IF at = {} THEN 0 ELSE CHOOSE i \in at : \A j \in at : i <= j

\* s.split(sep, 1)
split_once(s, sep) ==
    LET i == find(s, sep)
    IN  IF i = 0 THEN <<s>>
        ELSE <<SubSeq(s, 1, i - 1), SubSeq(s, i + Len(sep), Len(s))>>

\* s.split(sep)
RECURSIVE split(_, _)
split(s, sep) ==
    LET i == find(s, sep)
    IN  IF i = 0 THEN <<s>>
        ELSE <<SubSeq(s, 1, i - 1)>> \o split(SubSeq(s, i + Len(sep), Len(s)), sep)

RECURSIVE lstrip(_)
lstrip(s) ==
    IF s # <<>> /\ Head(s) \in Whitespace THEN lstrip(Tail(s)) ELSE s

RECURSIVE rstrip(_)
rstrip(s) ==
    IF s # <<>> /\ s[Len(s)] \in Whitespace
    THEN rstrip(SubSeq(s, 1, Len(s) - 1)) ELSE s

strip(s) == rstrip(lstrip(s))

\* sep.join(parts)
RECURSIVE join(_, _)
join(sep, parts) ==
    IF parts = <<>> THEN <<>>
    ELSE IF Len(parts) = 1 THEN parts[1]
    ELSE parts[1] \o sep \o join(sep, Tail(parts))

\* list.extend over a list of lists
RECURSIVE extend(_)
extend(lists) ==
    IF lists = <<>> THEN <<>> ELSE Head(lists) \o extend(Tail(lists))

Digit(d) == <<"0", "1", "2", "3", "4", "5", "6", "7", "8", "9">>[d + 1]

\* the decimal text of a natural number, as an f-string formats it
RECURSIVE int_to_str(_)
int_to_str(n) ==
    IF n < 10 THEN <<Digit(n)>> ELSE int_to_str(n \div 10) \o <<Digit(n % 10)>>

(***************************************************************************)
(* htmlnode.py: serialization.  The file is not among the sources; these   *)
(* definitions follow the design of the HTML node tree and the calls of    *)
(* src/src/test_htmlnode.py.                                               *)
(***************************************************************************)
\* the text an f-string writes for an attribute value: None is written out
str_of(value) ==
    IF value = None THEN <<"N", "o", "n", "e">> ELSE value[1]

\* props_to_html writing the pairs without the space in front of each
props_to_html_no_space(props) ==
    IF props = None THEN <<>>
    ELSE extend([i \in 1..Len(props[1]) |->
                    props[1][i][1] \o <<"=", "\"">>
                    \o str_of(props[1][i][2]) \o <<"\"">>])

\* for each pair in the mapping's order: a space, the key, =", the value, "
props_to_html(props) ==
    IF props = None THEN <<>>
    ELSE extend([i \in 1..Len(props[1]) |->
                    <<" ">> \o props[1][i][1] \o <<"=", "\"">>
                    \o str_of(props[1][i][2]) \o <<"\"">>])

\* <tag attrs>inner</tag>
element(tag, props, inner) ==
    <<"<">> \o tag \o props_to_html(props) \o <<">">> \o inner
    \o <<"<", "/">> \o tag \o <<">">>

\* a Parent around what its children serialized to
parent_to_html(node, parts) ==
    IF \E i \in 1..Len(parts) : parts[i].exc # "none" THEN Raise("ValueError")
    ELSE Ok(element(node.tag[1], node.props,
                    extend([i \in 1..Len(parts) |-> parts[i].val])))

\* to_html taking a Leaf with an empty value for a Leaf without a value
RECURSIVE to_html_empty_is_absent(_)
to_html_empty_is_absent(node) ==
    IF node.class = "LeafNode"
    THEN IF node.value = None \/ node.value = Some(<<>>) THEN Raise("ValueError")
         ELSE IF node.tag = None THEN Ok(node.value[1])
         ELSE Ok(element(node.tag[1], node.props, node.value[1]))
    ELSE IF node.tag = None THEN Raise("ValueError")
         ELSE IF node.children = None THEN Raise("ValueError")
         ELSE parent_to_html(node, [i \in 1..Len(node.children[1]) |->
                                       to_html_empty_is_absent(node.children[1][i])])

\* LeafNode.to_html and ParentNode.to_html
RECURSIVE to_html(_)
to_html(node) ==
    IF node.class = "LeafNode"
    THEN IF node.value = None THEN Raise("ValueError")
         ELSE IF node.tag = None THEN Ok(node.value[1])
         ELSE Ok(element(node.tag[1], node.props, node.value[1]))
    ELSE IF node.tag = None THEN Raise("ValueError")
         ELSE IF node.children = None THEN Raise("ValueError")
         ELSE parent_to_html(node, [i \in 1..Len(node.children[1]) |->
                                       to_html(node.children[1][i])])

(***************************************************************************)
(* inline_markdown.py: the delimiter pass                                  *)
(***************************************************************************)
\* split_sections without the test of line 21: empty sections become spans
split_sections_keeps_empty(sections, ttype) ==
    [i \in 1..Len(sections) |->
        IF (i - 1) % 2 = 0
        THEN TextNode(sections[i], TextType_TEXT, None)
        ELSE TextNode(sections[i], ttype, None)]

\* lines 20-26: the spans of one Plain span's sections, empty ones skipped
split_sections(sections, ttype) ==
    LET tagged == [i \in 1..Len(sections) |->
                      IF (i - 1) % 2 = 0
                      THEN TextNode(sections[i], TextType_TEXT, None)
                      ELSE TextNode(sections[i], ttype, None)]
    IN  SelectSeq(tagged, LAMBDA n : n.text # <<>>)

\* split_node_delimiter raising only when the delimiter occurs just once
split_node_delimiter_single(old_node, delim, ttype) ==
    IF old_node.text_type # TextType_TEXT THEN Ok(<<old_node>>)
    ELSE LET sections == split(old_node.text, delim)
         IN  IF Len(sections) = 2 THEN Raise("ValueError")
             ELSE Ok(split_sections(sections, ttype))

\* lines 9-28: one iteration of the loop over old_nodes
split_node_delimiter(old_node, delim, ttype) ==
    IF old_node.text_type # TextType_TEXT THEN Ok(<<old_node>>)
    ELSE LET sections == split(old_node.text, delim)
         IN  IF Len(sections) % 2 = 0 THEN Raise("ValueError")
             ELSE Ok(split_sections(sections, ttype))

\* what the loop returns, given what each iteration made: the first raise
\* leaves the function, otherwise new_nodes holds every iteration's spans
collect(per_node) ==
    IF \E i \in 1..Len(per_node) : per_node[i].exc # "none"
    THEN Raise("ValueError")
    ELSE Ok(extend([i \in 1..Len(per_node) |-> per_node[i].val]))

split_nodes_delimiter(nodes, delim, ttype) ==
    collect([i \in 1..Len(nodes) |->
                split_node_delimiter(nodes[i], delim, ttype)])

(***************************************************************************)
(* inline_markdown.py: the two regular expressions                         *)
(***************************************************************************)
\* the first index >= i of s holding a character of stop, Len(s) + 1 if none:
\* where a greedy run of a negated character class that starts at i ends
class_end(s, i, stop) ==
    LET at == {k \in i..Len(s) : s[k] \in stop}
    IN  IF at = {} THEN Len(s) + 1 ELSE CHOOSE k \in at : \A j \in at : k <= j

NoMatch == [ok |-> FALSE, text |-> <<>>, url |-> <<>>, end |-> 0]

\* \[([^\[\]]*)\]\(([^\(\)]*)\) matched at index i of s
bracket_paren_at(s, i) ==
    IF ~(i <= Len(s) /\ s[i] = "[") THEN NoMatch
    ELSE LET k == class_end(s, i + 1, {"[", "]"})
         IN  IF ~(k + 1 <= Len(s) /\ s[k] = "]" /\ s[k + 1] = "(") THEN NoMatch
             ELSE LET m == class_end(s, k + 2, {"(", ")"})
                  IN  IF ~(m <= Len(s) /\ s[m] = ")") THEN NoMatch
                      ELSE [ok |-> TRUE, text |-> SubSeq(s, i + 1, k - 1),
                            url |-> SubSeq(s, k + 2, m - 1), end |-> m]

\* line 33: the image pattern matched at index i
image_at(s, i) ==
    IF i <= Len(s) /\ s[i] = "!" THEN bracket_paren_at(s, i + 1) ELSE NoMatch

\* line 37: the link pattern matched at index i, (?<!!) looking one back
link_at(s, i) ==
    IF i > 1 /\ s[i - 1] = "!" THEN NoMatch ELSE bracket_paren_at(s, i)

\* re.findall: the groups of the non-overlapping matches, left to right
RECURSIVE findall_images(_, _)
findall_images(s, pos) ==
    IF pos > Len(s) THEN <<>>
    ELSE LET m == image_at(s, pos)
         IN  IF m.ok THEN <<<<m.text, m.url>>>> \o findall_images(s, m.end + 1)
             ELSE findall_images(s, pos + 1)

RECURSIVE findall_links(_, _)
findall_links(s, pos) ==
    IF pos > Len(s) THEN <<>>
    ELSE LET m == link_at(s, pos)
         IN  IF m.ok THEN <<<<m.text, m.url>>>> \o findall_links(s, m.end + 1)
             ELSE findall_links(s, pos + 1)

extract_markdown_images(text) == findall_images(text, 1)

extract_markdown_links(text) == findall_links(text, 1)

(***************************************************************************)
(* inline_markdown.py: the image and link passes                           *)
(***************************************************************************)
\* image_markdown without the "!", as the link pass writes it
image_markdown_no_bang(image_alt, image_url) ==
    <<"[">> \o image_alt \o <<"]", "(">> \o image_url \o <<")">>

\* f"![{image_alt}]({image_url})"
image_markdown(image_alt, image_url) ==
    <<"!", "[">> \o image_alt \o <<"]", "(">> \o image_url \o <<")">>

\* f"[{link_text}]({link_url})"
link_markdown(link_text, link_url) ==
    <<"[">> \o link_text \o <<"]", "(">> \o link_url \o <<")">>

\* a Plain span for text unless it is empty (the tests `if sections[0]:`)
text_node_if(text) ==
    IF text # <<>> THEN <<TextNode(text, TextType_TEXT, None)>> ELSE <<>>

\* lines 54-65: the loop over images and the trailing text
RECURSIVE image_loop(_, _)
image_loop(remaining_text, images) ==
    IF images = <<>> THEN text_node_if(remaining_text)
    ELSE LET image_alt == images[1][1]
             image_url == images[1][2]
             sections == split_once(remaining_text,
                                    image_markdown(image_alt, image_url))
         IN  text_node_if(sections[1])
             \o <<TextNode(image_alt, TextType_IMAGE, Some(image_url))>>
             \o image_loop(IF Len(sections) > 1 THEN sections[2] ELSE <<>>,
                           Tail(images))

\* lines 42-65: one iteration of the loop over old_nodes
split_node_image(node) ==
    IF node.text_type # TextType_TEXT THEN <<node>>
    ELSE LET images == extract_markdown_images(node.text)
         IN  IF images = <<>> THEN <<node>>
             ELSE image_loop(node.text, images)

split_nodes_image(nodes) ==
    extend([i \in 1..Len(nodes) |-> split_node_image(nodes[i])])

\* lines 83-94: the loop over links and the trailing text
RECURSIVE link_loop(_, _)
link_loop(remaining_text, links) ==
    IF links = <<>> THEN text_node_if(remaining_text)
    ELSE LET link_text == links[1][1]
             link_url == links[1][2]
             sections == split_once(remaining_text,
                                    link_markdown(link_text, link_url))
         IN  text_node_if(sections[1])
             \o <<TextNode(link_text, TextType_LINK, Some(link_url))>>
             \o link_loop(IF Len(sections) > 1 THEN sections[2] ELSE <<>>,
                          Tail(links))

\* split_node_link without the test of lines 72-74: every span is scanned
split_node_link_any_type(node) ==
    LET links == extract_markdown_links(node.text)
    IN  IF links = <<>> THEN <<node>> ELSE link_loop(node.text, links)

\* lines 71-94: one iteration of the loop over old_nodes
split_node_link(node) ==
    IF node.text_type # TextType_TEXT THEN <<node>>
    ELSE LET links == extract_markdown_links(node.text)
         IN  IF links = <<>> THEN <<node>>
             ELSE link_loop(node.text, links)

split_nodes_link(nodes) ==
    extend([i \in 1..Len(nodes) |-> split_node_link(nodes[i])])

(***************************************************************************)
(* inline_markdown.py: the pipeline and the span-to-leaf mapping           *)
(***************************************************************************)
\* the next delimiter pass, reached unless the pass before it raised
then_delimiter(nodes, delim, ttype) ==
    IF nodes.exc # "none" THEN nodes
    ELSE split_nodes_delimiter(nodes.val, delim, ttype)

\* lines 103-105: the image pass, the link pass and the return
then_image_link(nodes) ==
    IF nodes.exc # "none" THEN nodes
    ELSE Ok(split_nodes_link(split_nodes_image(nodes.val)))

\* text_to_textnodes with the italic pass run before the bold pass
text_to_textnodes_italic_first(text) ==
    then_image_link(
        then_delimiter(
            then_delimiter(
                split_nodes_delimiter(<<TextNode(text, TextType_TEXT, None)>>,
                                      <<"_">>, TextType_ITALIC),
                <<"*", "*">>, TextType_BOLD),
            <<BACKTICK>>, TextType_CODE))

\* text_to_textnodes with the image and link passes run before the delimiter
\* passes
text_to_textnodes_links_first(text) ==
    then_delimiter(
        then_delimiter(
            split_nodes_delimiter(
                split_nodes_link(
                    split_nodes_image(<<TextNode(text, TextType_TEXT, None)>>)),
                <<"*", "*">>, TextType_BOLD),
            <<"_">>, TextType_ITALIC),
        <<BACKTICK>>, TextType_CODE)

text_to_textnodes(text) ==
    then_image_link(
        then_delimiter(
            then_delimiter(
                split_nodes_delimiter(<<TextNode(text, TextType_TEXT, None)>>,
                                      <<"*", "*">>, TextType_BOLD),
                <<"_">>, TextType_ITALIC),
            <<BACKTICK>>, TextType_CODE))

\* text_node_to_html_node giving the img leaf the alt text as its value
text_node_to_html_node_img_value(text_node) ==
    CASE text_node.text_type = TextType_TEXT ->
            Ok(LeafNode(None, Some(text_node.text), None))
      [] text_node.text_type = TextType_BOLD ->
            Ok(LeafNode(Some(<<"b">>), Some(text_node.text), None))
      [] text_node.text_type = TextType_ITALIC ->
            Ok(LeafNode(Some(<<"i">>), Some(text_node.text), None))
      [] text_node.text_type = TextType_CODE ->
            Ok(LeafNode(Some(<<"c", "o", "d", "e">>), Some(text_node.text), None))
      [] text_node.text_type = TextType_LINK ->
            Ok(LeafNode(Some(<<"a">>), Some(text_node.text),
                        Some(<<<<<<"h", "r", "e", "f">>, text_node.url>>>>)))
      [] text_node.text_type = TextType_IMAGE ->
            Ok(LeafNode(Some(<<"i", "m", "g">>), Some(text_node.text),
                        Some(<<<<<<"s", "r", "c">>, text_node.url>>,
                               <<<<"a", "l", "t">>, Some(text_node.text)>>>>)))
      [] OTHER -> Raise("ValueError")

\* lines 107-121
text_node_to_html_node(text_node) ==
    CASE text_node.text_type = TextType_TEXT ->
            Ok(LeafNode(None, Some(text_node.text), None))
      [] text_node.text_type = TextType_BOLD ->
            Ok(LeafNode(Some(<<"b">>), Some(text_node.text), None))
      [] text_node.text_type = TextType_ITALIC ->
            Ok(LeafNode(Some(<<"i">>), Some(text_node.text), None))
      [] text_node.text_type = TextType_CODE ->
            Ok(LeafNode(Some(<<"c", "o", "d", "e">>), Some(text_node.text), None))
      [] text_node.text_type = TextType_LINK ->
            Ok(LeafNode(Some(<<"a">>), Some(text_node.text),
                        Some(<<<<<<"h", "r", "e", "f">>, text_node.url>>>>)))
      [] text_node.text_type = TextType_IMAGE ->
            Ok(LeafNode(Some(<<"i", "m", "g">>), Some(<<>>),
                        Some(<<<<<<"s", "r", "c">>, text_node.url>>,
                               <<<<"a", "l", "t">>, Some(text_node.text)>>>>)))
      [] OTHER -> Raise("ValueError")

\* block_markdown.py lines 55-59: the loop over text_nodes
children_of(text_nodes) ==
    IF text_nodes.exc # "none" THEN text_nodes
    ELSE Ok([i \in 1..Len(text_nodes.val) |->
                text_node_to_html_node(text_nodes.val[i]).val])

\* block_markdown.py lines 53-59
text_to_children(text) == children_of(text_to_textnodes(text))

(***************************************************************************)
(* block_markdown.py: segmentation and classification                      *)
(***************************************************************************)
BlockType_PARAGRAPH == "paragraph"
BlockType_HEADING == "heading"
BlockType_CODE == "code"
BlockType_QUOTE == "quote"
BlockType_UNORDERED_LIST == "unordered_list"
BlockType_ORDERED_LIST == "ordered_list"

\* markdown_to_blocks with line 20 lost: the units are kept untrimmed
markdown_to_blocks_untrimmed(md) ==
    SelectSeq(split(md, <<"\n", "\n">>), LAMBDA b : strip(b) # <<>>)

markdown_to_blocks(md) ==
    LET units == split(md, <<"\n", "\n">>)
        stripped == [i \in 1..Len(units) |-> strip(units[i])]
    IN  SelectSeq(stripped, LAMBDA b : b # <<>>)

\* "#" * i
hashes(i) == [k \in 1..i |-> "#"]

Fence == <<BACKTICK, BACKTICK, BACKTICK>>

\* lines 28-31: range(1, 7)
is_heading(b) ==
    /\ startswith(b, <<"#">>)
    /\ \E i \in 1..6 : startswith(b, hashes(i) \o <<" ">>)

\* is_ordered_list comparing with any one-digit number instead of i + 1
is_ordered_list_any_number(lines) ==
    \A i \in 1..Len(lines) :
        \E k \in 1..9 : startswith(lines[i], int_to_str(k) \o <<".", " ">>)

\* lines 42-47: the loop over enumerate(lines), left at the first mismatch
is_ordered_list(lines) ==
    \A i \in 1..Len(lines) : startswith(lines[i], int_to_str(i) \o <<".", " ">>)

\* is_code without the test of the end of the block
is_code_start_only(b) == startswith(b, Fence)

\* line 33
is_code(b) == startswith(b, Fence) /\ endswith(b, Fence)

\* is_quote with any() for all(): one line starting with ">" is enough
is_quote_any(lines) ==
    \E i \in 1..Len(lines) : startswith(lines[i], <<">">>)

\* line 36
is_quote(lines) ==
    \A i \in 1..Len(lines) : startswith(lines[i], <<">">>)

\* line 39
is_unordered_list(lines) ==
    \A i \in 1..Len(lines) : startswith(lines[i], <<"-", " ">>)

\* lines 28-51: the first rule that matches decides
classify(b, lines) ==
    IF is_heading(b) THEN BlockType_HEADING
    ELSE IF is_code(b) THEN BlockType_CODE
    ELSE IF is_quote(lines) THEN BlockType_QUOTE
    ELSE IF is_unordered_list(lines) THEN BlockType_UNORDERED_LIST
    ELSE IF is_ordered_list(lines) THEN BlockType_ORDERED_LIST
    ELSE BlockType_PARAGRAPH

block_to_block_type(b) == classify(b, split(b, <<"\n">>))

(***************************************************************************)
(* block_markdown.py: building a block's node                              *)
(***************************************************************************)
\* ParentNode(tag, children) around children that may have raised
parent_of(tag, children) ==
    IF children.exc # "none" THEN children
    ELSE Ok(ParentNode(Some(tag), Some(children.val), None))

paragraph_to_html_node(b) ==
    LET lines == split(b, <<"\n">>)
        paragraph_text == join(<<" ">>, lines)
    IN  parent_of(<<"p">>, text_to_children(paragraph_text))

\* lines 68-73: the number of leading "#" characters
RECURSIVE heading_level(_)
heading_level(b) ==
    IF b # <<>> /\ Head(b) = "#" THEN 1 + heading_level(Tail(b)) ELSE 0

\* heading_to_html_node slicing at level instead of level + 1
heading_to_html_node_keeps_space(b) ==
    LET level == heading_level(b)
        heading_text == slice_from(b, level)
    IN  parent_of(<<"h">> \o int_to_str(level), text_to_children(heading_text))

heading_to_html_node(b) ==
    LET level == heading_level(b)
        heading_text == slice_from(b, level + 1)
    IN  parent_of(<<"h">> \o int_to_str(level), text_to_children(heading_text))

\* code_to_html_node resolving the code text inline, as the other builders do
code_to_html_node_inline(b) ==
    LET lines == split(b, <<"\n">>)
        code_lines == SubSeq(lines, 2, Len(lines) - 1)
        joined == join(<<"\n">>, code_lines)
        code_text == IF joined # <<>> THEN joined \o <<"\n">> ELSE joined
        code_node == parent_of(<<"c", "o", "d", "e">>, text_to_children(code_text))
    IN  IF code_node.exc # "none" THEN code_node
        ELSE Ok(ParentNode(Some(<<"p", "r", "e">>), Some(<<code_node.val>>), None))

\* the code leaf without a value when the joined lines are empty
code_node_no_value(joined) ==
    LeafNode(None, IF joined # <<>> THEN Some(joined \o <<"\n">>) ELSE None, None)

\* code_to_html_node giving the leaf no value when the code text is empty
code_to_html_node_no_value(b) ==
    Ok(ParentNode(Some(<<"p", "r", "e">>),
                  Some(<<ParentNode(
                            Some(<<"c", "o", "d", "e">>),
                            Some(<<code_node_no_value(
                                      join(<<"\n">>,
                                           SubSeq(split(b, <<"\n">>), 2,
                                                  Len(split(b, <<"\n">>)) - 1)))>>),
                            None)>>),
                  None))

\* pre > code > leaf around the text of the code lines
code_of_lines(code_lines) ==
    Ok(ParentNode(Some(<<"p", "r", "e">>),
                  Some(<<ParentNode(
                            Some(<<"c", "o", "d", "e">>),
                            Some(<<LeafNode(
                                      None,
                                      Some(IF join(<<"\n">>, code_lines) # <<>>
                                           THEN join(<<"\n">>, code_lines) \o <<"\n">>
                                           ELSE <<>>),
                                      None)>>),
                            None)>>),
                  None))

\* code_to_html_node with lines[1:] for lines[1:-1]: the last line is kept
code_to_html_node_keeps_last(b) ==
    code_of_lines(Tail(split(b, <<"\n">>)))

code_to_html_node(b) ==
    LET lines == split(b, <<"\n">>)
        code_lines == SubSeq(lines, 2, Len(lines) - 1)
        joined == join(<<"\n">>, code_lines)
        code_text == IF joined # <<>> THEN joined \o <<"\n">> ELSE joined
        code_node == LeafNode(None, Some(code_text), None)
    IN  Ok(ParentNode(Some(<<"p", "r", "e">>),
                      Some(<<ParentNode(Some(<<"c", "o", "d", "e">>),
                                        Some(<<code_node>>), None)>>),
                      None))

quote_to_html_node(b) ==
    LET lines == split(b, <<"\n">>)
        stripped_lines == [i \in 1..Len(lines) |->
                              IF startswith(lines[i], <<">">>)
                              THEN lstrip(slice_from(lines[i], 1))
                              ELSE lines[i]]
        quote_text == join(<<" ">>, stripped_lines)
    IN  parent_of(<<"b", "l", "o", "c", "k", "q", "u", "o", "t", "e">>,
                  text_to_children(quote_text))

\* ParentNode(tag, list_items), each item ParentNode("li", children)
list_of(tag, items) ==
    IF \E i \in 1..Len(items) : items[i].exc # "none"
    THEN Raise("ValueError")
    ELSE Ok(ParentNode(Some(tag), Some([i \in 1..Len(items) |-> items[i].val]),
                       None))

unordered_list_to_html_node(b) ==
    LET lines == split(b, <<"\n">>)
        list_items == [i \in 1..Len(lines) |->
                          parent_of(<<"l", "i">>,
                                    text_to_children(slice_from(lines[i], 2)))]
    IN  list_of(<<"u", "l">>, list_items)

\* ordered_list_to_html_node cutting three characters off every line
ordered_list_to_html_node_three(b) ==
    list_of(<<"o", "l">>,
            [i \in 1..Len(split(b, <<"\n">>)) |->
                parent_of(<<"l", "i">>,
                          text_to_children(slice_from(split(b, <<"\n">>)[i], 3)))])

ordered_list_to_html_node(b) ==
    LET lines == split(b, <<"\n">>)
        list_items == [i \in 1..Len(lines) |->
                          LET prefix == int_to_str(i) \o <<".", " ">>
                          IN  parent_of(<<"l", "i">>,
                                        text_to_children(
                                            slice_from(lines[i], Len(prefix))))]
    IN  list_of(<<"o", "l">>, list_items)

\* lines 123-136: the branch taken for a block of type btype
build_block(b, btype) ==
    CASE btype = BlockType_PARAGRAPH -> paragraph_to_html_node(b)
      [] btype = BlockType_HEADING -> heading_to_html_node(b)
      [] btype = BlockType_CODE -> code_to_html_node(b)
      [] btype = BlockType_QUOTE -> quote_to_html_node(b)
      [] btype = BlockType_UNORDERED_LIST -> unordered_list_to_html_node(b)
      [] btype = BlockType_ORDERED_LIST -> ordered_list_to_html_node(b)
      [] OTHER -> Raise("ValueError")

block_to_html_node(b) == build_block(b, block_to_block_type(b))

\* lines 141-144: what the loop over blocks makes of each block
block_nodes_of(blks) ==
    [i \in 1..Len(blks) |-> block_to_html_node(blks[i])]

\* markdown_to_html_node putting each block's node in front of the others
markdown_to_html_node_prepending(md) ==
    list_of(<<"d", "i", "v">>,
            block_nodes_of([i \in 1..Len(markdown_to_blocks(md)) |->
                markdown_to_blocks(md)[Len(markdown_to_blocks(md)) + 1 - i]]))

\* the nodes of the blocks that were built, those that raised left out
built_only(block_nodes) ==
    Ok(ParentNode(Some(<<"d", "i", "v">>),
                  Some([i \in 1..Len(SelectSeq(block_nodes,
                                               LAMBDA r : r.exc = "none")) |->
                           SelectSeq(block_nodes, LAMBDA r : r.exc = "none")[i].val]),
                  None))

\* markdown_to_html_node catching a block's error and going on
markdown_to_html_node_skipping(md) ==
    built_only(block_nodes_of(markdown_to_blocks(md)))

\* lines 138-145: the first block that raises ends the call
markdown_to_html_node(md) ==
    list_of(<<"d", "i", "v">>, block_nodes_of(markdown_to_blocks(md)))

(***************************************************************************)
(* generate_page.py: the title of a document                               *)
(***************************************************************************)
\* lines 34-37 taking any line that starts with a hash for the title line
title_of_any_heading(lines) ==
    IF \A i \in 1..Len(lines) : ~startswith(lines[i], <<"#">>)
    THEN Raise("Exception")
    ELSE Ok(strip(slice_from(
                lines[CHOOSE i \in 1..Len(lines) :
                          /\ startswith(lines[i], <<"#">>)
                          /\ \A j \in 1..(i - 1) : ~startswith(lines[j], <<"#">>)],
                2)))

\* lines 34-37: the loop returns at the first line that starts with "# "
\* title_of with the whitespace before a line left out of the test
title_of_stripped(lines) ==
    IF \A i \in 1..Len(lines) : ~startswith(lstrip(lines[i]), <<"#", " ">>)
    THEN Raise("Exception")
    ELSE Ok(strip(slice_from(
                lstrip(lines[CHOOSE i \in 1..Len(lines) :
                          /\ startswith(lstrip(lines[i]), <<"#", " ">>)
                          /\ \A j \in 1..(i - 1) :
                                ~startswith(lstrip(lines[j]), <<"#", " ">>)]),
                2)))

title_of(lines) ==
    IF \A i \in 1..Len(lines) : ~startswith(lines[i], <<"#", " ">>)
    THEN Raise("Exception")
    ELSE Ok(strip(slice_from(
                lines[CHOOSE i \in 1..Len(lines) :
                          /\ startswith(lines[i], <<"#", " ">>)
                          /\ \A j \in 1..(i - 1) : ~startswith(lines[j], <<"#", " ">>)],
                2)))

\* lines 17-37
extract_title(md) == title_of(split(md, <<"\n">>))

(***************************************************************************)
(* Inputs: the texts made of at most n pieces of a set of short texts      *)
(***************************************************************************)
RECURSIVE Texts(_, _)
Texts(pieces, n) ==
    IF n = 0 THEN {<<>>}
    ELSE LET shorter == Texts(pieces, n - 1)
         IN  shorter \cup {t \o p : t \in shorter, p \in pieces}

MaxInlinePieces == 4
MaxDocPieces == 6
MaxBlockPieces == 4
MaxCodePieces == 6

InlinePieces ==
    {<<"a">>, <<"*", "*">>, <<"_">>, <<BACKTICK>>, <<"!">>,
     <<"[", "a", "]", "(", "b", ")">>, <<"[">>, <<"]", "(">>, <<")">>}

DocPieces == {<<"a">>, <<" ">>, <<"\n">>, <<"\n", "\n">>}

BlockPieces ==
    {<<"a">>, <<" ">>, <<"\n">>, <<"#">>, <<"#", "#", "#", "#", "#", "#">>,
     <<"_">>, Fence, <<">">>, <<"-", " ">>,
     <<"1", ".", " ">>, <<"2", ".", " ">>, <<"3", ".", " ">>}

CodePieces == {Fence, <<"\n">>, <<"a">>, <<"_">>, <<"*", "*">>}

\* the three delimiter passes of text_to_textnodes
DelimiterPasses ==
    {<<<<"*", "*">>, TextType_BOLD>>, <<<<"_">>, TextType_ITALIC>>,
     <<<<BACKTICK>>, TextType_CODE>>}

InlineFns ==
    {"start", "split_nodes_delimiter", "split_nodes_image", "split_nodes_link",
     "text_to_textnodes", "text_to_children"}

(***************************************************************************)
(* The inline passes: a caller holds a span list and hands it to a pass;   *)
(* what a pass returns is the list the next call is given.  A call that    *)
(* raises ends the run.                                                    *)
(***************************************************************************)
InlineIdle ==
    /\ markdown = <<>>
    /\ blocks = <<>>
    /\ block = <<>>
    /\ block_type = "none"
    /\ html_node = <<>>
    /\ html = <<>>
    /\ title = <<>>

InitInline ==
    /\ fn = "start"
    /\ delimiter = <<>>
    /\ text_type = TextType_TEXT
    /\ old_nodes = <<>>
    /\ \E text \in Texts(InlinePieces, MaxInlinePieces) :
          new_nodes = <<TextNode(text, TextType_TEXT, None)>>
    /\ html_nodes = <<>>
    /\ raised = "none"
    /\ InlineIdle

InlineCall(name, delim, ttype, result) ==
    /\ fn' = name
    /\ delimiter' = delim
    /\ text_type' = ttype
    /\ old_nodes' = new_nodes
    /\ new_nodes' = result.val
    /\ raised' = result.exc
    /\ html_nodes' = <<>>
    /\ UNCHANGED <<html, title, markdown, blocks, block, block_type, html_node>>

SplitNodesDelimiter ==
    /\ fn \in InlineFns
    /\ raised = "none"
    /\ \E pass \in DelimiterPasses :
          InlineCall("split_nodes_delimiter", pass[1], pass[2],
                     split_nodes_delimiter(new_nodes, pass[1], pass[2]))

SplitNodesImage ==
    /\ fn \in InlineFns
    /\ raised = "none"
    /\ InlineCall("split_nodes_image", <<>>, TextType_IMAGE,
                  Ok(split_nodes_image(new_nodes)))

SplitNodesLink ==
    /\ fn \in InlineFns
    /\ raised = "none"
    /\ InlineCall("split_nodes_link", <<>>, TextType_LINK,
                  Ok(split_nodes_link(new_nodes)))

\* text_to_textnodes(text), text the content of the one Plain span held
TextToTextnodes ==
    /\ fn = "start"
    /\ InlineCall("text_to_textnodes", <<>>, TextType_TEXT,
                  text_to_textnodes(new_nodes[1].text))

\* block_markdown.py lines 55-59: the leaves of the spans held
TextToChildren ==
    /\ fn \in InlineFns
    /\ raised = "none"
    /\ fn' = "text_to_children"
    /\ html_nodes' = [i \in 1..Len(new_nodes) |->
                         text_node_to_html_node(new_nodes[i]).val]
    /\ UNCHANGED <<html, title, delimiter, text_type, old_nodes, new_nodes, raised,
                   markdown, blocks, block, block_type, html_node>>

NextInline ==
    \/ SplitNodesDelimiter
    \/ SplitNodesImage
    \/ SplitNodesLink
    \/ TextToTextnodes
    \/ TextToChildren

SpecInline == InitInline /\ [][NextInline]_vars

(***************************************************************************)
(* Segmentation: markdown_to_blocks on a document                          *)
(***************************************************************************)
InitSegment ==
    /\ fn = "start_document"
    /\ markdown \in Texts(DocPieces, MaxDocPieces)
    /\ blocks = <<>>
    /\ block = <<>>
    /\ block_type = "none"
    /\ html_node = <<>>
    /\ html = <<>>
    /\ title = <<>>
    /\ delimiter = <<>>
    /\ text_type = TextType_TEXT
    /\ old_nodes = <<>>
    /\ new_nodes = <<>>
    /\ html_nodes = <<>>
    /\ raised = "none"

MarkdownToBlocks ==
    /\ fn = "start_document"
    /\ fn' = "markdown_to_blocks"
    /\ blocks' = markdown_to_blocks(markdown)
    /\ UNCHANGED <<html, title, delimiter, text_type, old_nodes, new_nodes, html_nodes,
                   markdown, block, block_type, html_node, raised>>

NextSegment == MarkdownToBlocks

SpecSegment == InitSegment /\ [][NextSegment]_vars

(***************************************************************************)
(* Blocks: block_to_block_type and block_to_html_node on a block           *)
(***************************************************************************)
InitBlock ==
    /\ fn = "start_block"
    /\ block \in Texts(BlockPieces, MaxBlockPieces)
    /\ markdown = <<>>
    /\ blocks = <<>>
    /\ block_type = "none"
    /\ html_node = <<>>
    /\ html = <<>>
    /\ title = <<>>
    /\ delimiter = <<>>
    /\ text_type = TextType_TEXT
    /\ old_nodes = <<>>
    /\ new_nodes = <<>>
    /\ html_nodes = <<>>
    /\ raised = "none"

BlockToBlockType ==
    /\ fn = "start_block"
    /\ fn' = "block_to_block_type"
    /\ block_type' = block_to_block_type(block)
    /\ UNCHANGED <<html, title, delimiter, text_type, old_nodes, new_nodes, html_nodes,
                   markdown, blocks, block, html_node, raised>>

\* line 122 sets block_type, lines 123-136 build the node or raise
\* what the caller of block_to_html_node is left with
Returned(result) ==
    /\ html_node' = IF result.exc = "none" THEN <<result.val>> ELSE <<>>
    /\ raised' = result.exc

\* line 122 sets block_type, lines 123-136 build the node or raise
BlockToHtmlNode ==
    /\ fn \in {"start_block", "block_to_block_type"}
    /\ fn' = "block_to_html_node"
    /\ block_type' = block_to_block_type(block)
    /\ Returned(block_to_html_node(block))
    /\ UNCHANGED <<html, title, delimiter, text_type, old_nodes, new_nodes, html_nodes,
                   markdown, blocks, block>>

NextBlock ==
    \/ BlockToBlockType
    \/ BlockToHtmlNode

SpecBlock == InitBlock /\ [][NextBlock]_vars

\* the same calls on blocks written with fences
InitCode ==
    /\ fn = "start_block"
    /\ block \in Texts(CodePieces, MaxCodePieces)
    /\ markdown = <<>>
    /\ blocks = <<>>
    /\ block_type = "none"
    /\ html_node = <<>>
    /\ html = <<>>
    /\ title = <<>>
    /\ delimiter = <<>>
    /\ text_type = TextType_TEXT
    /\ old_nodes = <<>>
    /\ new_nodes = <<>>
    /\ html_nodes = <<>>
    /\ raised = "none"

SpecCode == InitCode /\ [][NextBlock]_vars

(***************************************************************************)
(* Trees: nodes made with the two constructors, then serialized            *)
(***************************************************************************)
MaxHeight == 2

\* the leaves a caller starts from: the leaves the converter makes, a Leaf
\* with an empty attribute mapping and Leaves without a value
StartLeaves ==
    {LeafNode(None, Some(<<"a">>), None),
     LeafNode(Some(<<"b">>), Some(<<"a">>), None),
     LeafNode(Some(<<"b">>), Some(<<"a">>), Some(<<>>)),
     LeafNode(Some(<<"a">>), Some(<<"a">>),
              Some(<<<<<<"h", "r", "e", "f">>, Some(<<"u">>)>>>>)),
     LeafNode(Some(<<"i", "m", "g">>), Some(<<>>),
              Some(<<<<<<"s", "r", "c">>, Some(<<"u">>)>>,
                     <<<<"a", "l", "t">>, Some(<<"a">>)>>>>)),
     LeafNode(Some(<<"p">>), None, None),
     LeafNode(None, None, None)}

\* the Parents a caller starts from: without children, with no children
StartParents ==
    {ParentNode(Some(<<"d", "i", "v">>), Some(<<>>), None),
     ParentNode(Some(<<"d", "i", "v">>), None, None),
     ParentNode(None, Some(<<>>), None)}

\* the nodes put before and after a node under its new Parent
Siblings ==
    {<<<<>>, <<>>>>,
     <<<<LeafNode(None, Some(<<"a">>), None)>>, <<>>>>,
     <<<<>>, <<LeafNode(Some(<<"b">>), Some(<<"a">>), None)>>>>,
     <<<<LeafNode(None, Some(<<"a">>), None)>>,
       <<LeafNode(Some(<<"p">>), None, None)>>>>}

ParentTags == {None, Some(<<"p">>)}

ParentProps == {None, Some(<<<<<<"c", "l", "a", "s", "s">>, Some(<<"c">>)>>>>)}

\* the number of Parents on the longest path down from node
RECURSIVE height_of(_)
height_of(node) ==
    IF node.class = "LeafNode" \/ node.children = None THEN 0
    ELSE IF node.children[1] = <<>> THEN 1
    ELSE 1 + height_of(CHOOSE c \in {node.children[1][i] : i \in 1..Len(node.children[1])} :
                          \A i \in 1..Len(node.children[1]) :
                              height_of(node.children[1][i]) <= height_of(c))

TreeIdle ==
    /\ delimiter = <<>>
    /\ text_type = TextType_TEXT
    /\ old_nodes = <<>>
    /\ new_nodes = <<>>
    /\ html_nodes = <<>>
    /\ markdown = <<>>
    /\ blocks = <<>>
    /\ block = <<>>
    /\ block_type = "none"
    /\ title = <<>>

InitTree ==
    /\ fn = "start_tree"
    /\ \E node \in StartLeaves \cup StartParents : html_node = <<node>>
    /\ html = <<>>
    /\ raised = "none"
    /\ TreeIdle

\* ParentNode(tag, [..., node, ...], props) around the node held
MakeParentNode ==
    /\ fn = "start_tree"
    /\ height_of(html_node[1]) < MaxHeight
    /\ \E tag \in ParentTags, props \in ParentProps, around \in Siblings :
          html_node' = <<ParentNode(tag,
                                    Some(around[1] \o html_node \o around[2]),
                                    props)>>
    /\ UNCHANGED <<fn, html, title, delimiter, text_type, old_nodes, new_nodes,
                   html_nodes, markdown, blocks, block, block_type, raised>>

\* what the caller of to_html is left with
Serialized(result) ==
    /\ html' = result.val
    /\ raised' = result.exc

\* node.to_html() on the node held
ToHtml ==
    /\ fn \in {"start_tree", "markdown_to_html_node"}
    /\ raised = "none"
    /\ html_node # <<>>
    /\ fn' = "to_html"
    /\ Serialized(to_html(html_node[1]))
    /\ UNCHANGED <<title, delimiter, text_type, old_nodes, new_nodes,
                   html_nodes, markdown, blocks, block, block_type, html_node>>

NextTree ==
    \/ MakeParentNode
    \/ ToHtml

SpecTree == InitTree /\ [][NextTree]_vars

(***************************************************************************)
(* Documents: markdown_to_html_node on a document, then to_html            *)
(***************************************************************************)
MaxPagePieces == 4

PagePieces ==
    {<<"a">>, <<"_">>, <<"\n", "\n">>, <<"\n">>, Fence, <<"#", " ">>,
     <<"-", " ">>, <<"1", ".", " ">>, <<">">>,
     <<"!", "[", "a", "]", "(", "b", ")">>}

InitDocument ==
    /\ fn = "start_document"
    /\ markdown \in Texts(PagePieces, MaxPagePieces)
    /\ blocks = <<>>
    /\ block = <<>>
    /\ block_type = "none"
    /\ html_node = <<>>
    /\ html = <<>>
    /\ title = <<>>
    /\ delimiter = <<>>
    /\ text_type = TextType_TEXT
    /\ old_nodes = <<>>
    /\ new_nodes = <<>>
    /\ html_nodes = <<>>
    /\ raised = "none"

\* line 140 sets blocks, lines 141-145 build the div or raise
MarkdownToHtmlNode ==
    /\ fn = "start_document"
    /\ fn' = "markdown_to_html_node"
    /\ blocks' = markdown_to_blocks(markdown)
    /\ Returned(markdown_to_html_node(markdown))
    /\ UNCHANGED <<html, title, delimiter, text_type, old_nodes, new_nodes,
                   html_nodes, markdown, block, block_type>>

NextDocument ==
    \/ MarkdownToHtmlNode
    \/ ToHtml

SpecDocument == InitDocument /\ [][NextDocument]_vars

(***************************************************************************)
(* Titles: extract_title on a document                                     *)
(***************************************************************************)
MaxTitlePieces == 6

TitlePieces == {<<"#", " ">>, <<"#">>, <<"a">>, <<" ">>, <<"\n">>}

InitTitle ==
    /\ fn = "start_document"
    /\ markdown \in Texts(TitlePieces, MaxTitlePieces)
    /\ blocks = <<>>
    /\ block = <<>>
    /\ block_type = "none"
    /\ html_node = <<>>
    /\ html = <<>>
    /\ title = <<>>
    /\ delimiter = <<>>
    /\ text_type = TextType_TEXT
    /\ old_nodes = <<>>
    /\ new_nodes = <<>>
    /\ html_nodes = <<>>
    /\ raised = "none"

\* what the caller of extract_title is left with
TitleReturned(result) ==
    /\ title' = result.val
    /\ raised' = result.exc

ExtractTitle ==
    /\ fn = "start_document"
    /\ fn' = "extract_title"
    /\ TitleReturned(extract_title(markdown))
    /\ UNCHANGED <<html, delimiter, text_type, old_nodes, new_nodes, html_nodes,
                   markdown, blocks, block, block_type, html_node>>

NextTitle == ExtractTitle

SpecTitle == InitTitle /\ [][NextTitle]_vars

(***************************************************************************)
(* Lists: the same calls on blocks written as lists of up to MaxListLines  *)
(* lines                                                                   *)
(***************************************************************************)
MaxListLines == 10

\* the texts of list items: plain, empty, with a space or a number in front,
\* with a closed and with an unclosed delimiter
ListItems ==
    {<<"a">>, <<>>, <<" ", "a">>, <<"1", ".", " ", "a">>, <<"_", "a", "_">>,
     <<"_">>}

\* n lines with the prefix of their place, the k-th over item, the others
\* over "a"
ListBlock(n, k, item, ordered) ==
    join(<<"\n">>,
         [i \in 1..n |->
            (IF ordered THEN int_to_str(i) \o <<".", " ">> ELSE <<"-", " ">>)
            \o (IF i = k THEN item ELSE <<"a">>)])

InitList ==
    /\ fn = "start_block"
    /\ \E n \in 1..MaxListLines :
          \E k \in 1..n, item \in ListItems, ordered \in BOOLEAN :
              block = ListBlock(n, k, item, ordered)
    /\ markdown = <<>>
    /\ blocks = <<>>
    /\ block_type = "none"
    /\ html_node = <<>>
    /\ html = <<>>
    /\ title = <<>>
    /\ delimiter = <<>>
    /\ text_type = TextType_TEXT
    /\ old_nodes = <<>>
    /\ new_nodes = <<>>
    /\ html_nodes = <<>>
    /\ raised = "none"

SpecList == InitList /\ [][NextBlock]_vars

(***************************************************************************)
(* Fenced documents: a fence line, a text, a blank line, a text and a      *)
(* fence line, converted                                                   *)
(***************************************************************************)
MaxFencedPieces == 3

FencedPieces == {<<"a">>, <<" ">>, <<"\n">>, <<"_">>}

\* the non-empty texts without backticks put on the two sides of the blank line
FencedTexts == Texts(FencedPieces, MaxFencedPieces) \ {<<>>}

FencedDocument(A, B) ==
    Fence \o <<"\n">> \o A \o <<"\n", "\n">> \o B \o <<"\n">> \o Fence

InitFenced ==
    /\ fn = "start_document"
    /\ \E A \in FencedTexts, B \in FencedTexts : markdown = FencedDocument(A, B)
    /\ blocks = <<>>
    /\ block = <<>>
    /\ block_type = "none"
    /\ html_node = <<>>
    /\ html = <<>>
    /\ title = <<>>
    /\ delimiter = <<>>
    /\ text_type = TextType_TEXT
    /\ old_nodes = <<>>
    /\ new_nodes = <<>>
    /\ html_nodes = <<>>
    /\ raised = "none"

SpecFenced == InitFenced /\ [][NextDocument]_vars

(***************************************************************************)
(* Texts with delimiters inside links and images, given to                 *)
(* text_to_textnodes                                                       *)
(***************************************************************************)
MaxTextPieces == 5

TextPieces ==
    {<<"[", "a">>, <<"]", "(">>, <<")">>, <<"!">>,
     <<"_">>, <<"*", "*">>, <<BACKTICK>>}

InitText ==
    /\ fn = "start"
    /\ delimiter = <<>>
    /\ text_type = TextType_TEXT
    /\ old_nodes = <<>>
    /\ \E text \in Texts(TextPieces, MaxTextPieces) :
          new_nodes = <<TextNode(text, TextType_TEXT, None)>>
    /\ html_nodes = <<>>
    /\ raised = "none"
    /\ InlineIdle

NextText == TextToTextnodes \/ TextToChildren

SpecText == InitText /\ [][NextText]_vars

(***************************************************************************)
(* Texts with bold inside italic, given to the inline passes               *)
(***************************************************************************)
MaxNestedPieces == 2

NestedPieces == {<<"a">>, <<"*">>, <<"[", "a", "]", "(", "b", ")">>}

\* the non-empty texts without delimiters put at x, y and z
NestedTexts ==
    {t \in Texts(NestedPieces, MaxNestedPieces) :
        t # <<>> /\ find(t, <<"*", "*">>) = 0}

\* _x **y** z_
NestedText(x, y, z) ==
    <<"_">> \o x \o <<" ", "*", "*">> \o y \o <<"*", "*", " ">> \o z \o <<"_">>

InitNested ==
    /\ fn = "start"
    /\ delimiter = <<>>
    /\ text_type = TextType_TEXT
    /\ old_nodes = <<>>
    /\ \E x \in NestedTexts, y \in NestedTexts, z \in NestedTexts :
          new_nodes = <<TextNode(NestedText(x, y, z), TextType_TEXT, None)>>
    /\ html_nodes = <<>>
    /\ raised = "none"
    /\ InlineIdle

NextNested == SplitNodesDelimiter \/ TextToTextnodes \/ TextToChildren

SpecNested == InitNested /\ [][NextNested]_vars

(***************************************************************************)
(* Pages: generate_page converts a document, serializes the tree and then  *)
(* takes the title of the same document                                    *)
(***************************************************************************)
MaxPageUnits == 3

\* units with a line starting with "# " as a heading, after whitespace, in a
\* fenced code block and in a paragraph, and units without one
PageUnits ==
    {<<"#", " ", "a">>,
     <<" ", "#", " ", "b">>,
     Fence \o <<"\n", "#", " ", "c", "\n">> \o Fence,
     <<"d", "\n", "#", " ", "e">>,
     <<"f">>,
     <<"_">>,
     <<" ", "#", " ", "g", "\n", "#", " ", "h">>,
     <<"\n", "#", " ", "i">>,
     <<"#", "#", " ", "j">>}

\* the documents of at most n units, a blank line between two units
RECURSIVE Pages(_)
Pages(n) ==
    IF n <= 1 THEN PageUnits
    ELSE Pages(n - 1)
         \cup {page \o <<"\n", "\n">> \o unit : page \in Pages(n - 1),
                                                unit \in PageUnits}

InitPage ==
    /\ fn = "start_document"
    /\ markdown \in Pages(MaxPageUnits)
    /\ blocks = <<>>
    /\ block = <<>>
    /\ block_type = "none"
    /\ html_node = <<>>
    /\ html = <<>>
    /\ title = <<>>
    /\ delimiter = <<>>
    /\ text_type = TextType_TEXT
    /\ old_nodes = <<>>
    /\ new_nodes = <<>>
    /\ html_nodes = <<>>
    /\ raised = "none"

\* generate_page.py line 77, reached when lines 74 and 75 have not raised
GeneratePageTitle ==
    /\ fn = "to_html"
    /\ raised = "none"
    /\ html_node # <<>>
    /\ markdown_to_html_node(markdown) = Ok(html_node[1])
    /\ fn' = "generate_page"
    /\ TitleReturned(extract_title(markdown))
    /\ UNCHANGED <<html, delimiter, text_type, old_nodes, new_nodes, html_nodes,
                   markdown, blocks, block, block_type, html_node>>

NextPage ==
    \/ MarkdownToHtmlNode
    \/ ToHtml
    \/ GeneratePageTitle

SpecPage == InitPage /\ [][NextPage]_vars

(***************************************************************************)
(* The whole module: any of the entries                                       *)
(***************************************************************************)
Init == InitInline \/ InitSegment \/ InitBlock \/ InitCode \/ InitTree
        \/ InitDocument \/ InitTitle \/ InitList
        \/ InitFenced \/ InitText \/ InitNested
        \/ InitPage

Next == NextInline \/ NextSegment \/ NextBlock \/ NextTree
        \/ NextDocument \/ NextTitle \/ NextPage

Spec == Init /\ [][Next]_vars

(***************************************************************************)
(* Properties of segmentation and of the block functions                   *)
(***************************************************************************)
contains(s, sub) == find(s, sub) # 0

\* units is s cut at the occurrences of sep taken from the left
IsSplitOf(units, s, sep) ==
    /\ join(sep, units) = s
    /\ \A i \in 1..Len(units) : ~contains(units[i], sep)
    /\ \A i \in 1..(Len(units) - 1) :
          ~contains(units[i] \o SubSeq(sep, 1, Len(sep) - 1), sep)

\* t is s without its leading and trailing whitespace
IsTrimOf(t, s) ==
    /\ t = <<>> \/ (t[1] \notin Whitespace /\ t[Len(t)] \notin Whitespace)
    /\ \E i \in 0..Len(s) :
          /\ i + Len(t) <= Len(s)
          /\ SubSeq(s, i + 1, i + Len(t)) = t
          /\ \A k \in (1..i) \cup ((i + Len(t) + 1)..Len(s)) : s[k] \in Whitespace

\* C1: markdown_to_blocks returns, in document order, the units between the
\* two-newline sequences of the document, each trimmed of leading and
\* trailing whitespace, without the units that trim to empty; so every
\* block is non-empty, neither starts nor ends with whitespace and holds no
\* two consecutive newlines.
C1_BlocksAreTrimmedUnits ==
    fn = "markdown_to_blocks" =>
        LET units == split(markdown, <<"\n", "\n">>)
            kept == SelectSeq(units, LAMBDA u : \E k \in 1..Len(u) :
                                                  u[k] \notin Whitespace)
        IN  /\ IsSplitOf(units, markdown, <<"\n", "\n">>)
            /\ Len(blocks) = Len(kept)
            /\ \A i \in 1..Len(blocks) :
                  /\ IsTrimOf(blocks[i], kept[i])
                  /\ blocks[i] # <<>>
                  /\ blocks[i][1] \notin Whitespace
                  /\ blocks[i][Len(blocks[i])] \notin Whitespace
                  /\ ~contains(blocks[i], <<"\n", "\n">>)

\* a document of three units: the second is whitespace and is dropped, the
\* third is kept and trimmed
C1_Witness ==
    /\ fn = "markdown_to_blocks"
    /\ Len(blocks) = 2
    /\ Len(split(markdown, <<"\n", "\n">>)) = 3
    /\ split(markdown, <<"\n", "\n">>)[2] # <<>>
    /\ split(markdown, <<"\n", "\n">>)[3] # blocks[2]

HeadingTag(n) == <<"h", <<"1", "2", "3", "4", "5", "6">>[n]>>

\* C2: for n in 1..6 a block of n "#", one space and a text classifies as
\* Heading and is built as the node h{n} over the inline resolution of the
\* text after the n hashes and the space (a delimiter error of that
\* resolution is what the build raises); seven "#" and a space classify
\* as Paragraph.
C2_HeadingLevelAndText ==
    /\ fn \in {"block_to_block_type", "block_to_html_node"} =>
          /\ \A n \in 1..6 :
                startswith(block, hashes(n) \o <<" ">>)
                    => block_type = BlockType_HEADING
          /\ startswith(block, hashes(7) \o <<" ">>)
                => block_type = BlockType_PARAGRAPH
    /\ fn = "block_to_html_node" =>
          \A n \in 1..6 :
              startswith(block, hashes(n) \o <<" ">>) =>
                  LET text == SubSeq(block, n + 2, Len(block))
                      children == text_to_children(text)
                  IN  IF children.exc # "none"
                      THEN raised = children.exc /\ html_node = <<>>
                      ELSE /\ raised = "none"
                           /\ html_node =
                                 <<ParentNode(Some(HeadingTag(n)),
                                              Some(children.val), None)>>

\* a level-6 heading built with a child
C2_Witness ==
    /\ fn = "block_to_html_node"
    /\ startswith(block, hashes(6) \o <<" ">>)
    /\ raised = "none"
    /\ html_node[1].tag = Some(HeadingTag(6))
    /\ html_node[1].children # Some(<<>>)

Lines(b) == split(b, <<"\n">>)

HasPositionalPrefix(lines, i) ==
    startswith(lines[i], int_to_str(i) \o <<".", " ">>)

SomeLineFails(b) ==
    \E i \in 1..Len(Lines(b)) : ~HasPositionalPrefix(Lines(b), i)

\* one of the rules tested before the ordered-list rule matches b
EarlierRuleMatches(b) ==
    \/ \E n \in 1..6 : startswith(b, hashes(n) \o <<" ">>)
    \/ startswith(b, Fence) /\ endswith(b, Fence)
    \/ \A i \in 1..Len(Lines(b)) : startswith(Lines(b)[i], <<">">>)
    \/ \A i \in 1..Len(Lines(b)) : startswith(Lines(b)[i], <<"-", " ">>)

\* C3 as stated: OrderedList only if every line i has the prefix "{i+1}. ",
\* and a block with a line that fails its prefix classifies as Paragraph.
C3_MismatchIsParagraph ==
    fn \in {"block_to_block_type", "block_to_html_node"} =>
        /\ block_type = BlockType_ORDERED_LIST => ~SomeLineFails(block)
        /\ SomeLineFails(block) => block_type = BlockType_PARAGRAPH

\* C3, amended: OrderedList only if every line i has the prefix "{i+1}. ";
\* a block with a line that fails its prefix never classifies as
\* OrderedList, and classifies as Paragraph unless one of the earlier rules
\* (Heading, Code, Quote, UnorderedList) matches it.
C3_MismatchIsNeverOrderedList ==
    fn \in {"block_to_block_type", "block_to_html_node"} =>
        /\ block_type = BlockType_ORDERED_LIST => ~SomeLineFails(block)
        /\ SomeLineFails(block) =>
              /\ block_type # BlockType_ORDERED_LIST
              /\ ~EarlierRuleMatches(block) => block_type = BlockType_PARAGRAPH

\* the lines "1. " and "3. ": a gap in the numbering
C3_Witness ==
    /\ fn = "block_to_block_type"
    /\ Len(Lines(block)) = 2
    /\ startswith(Lines(block)[1], <<"1", ".", " ">>)
    /\ startswith(Lines(block)[2], <<"3", ".", " ">>)
    /\ block_type = BlockType_PARAGRAPH

\* the lines of b between its first and its last line
InnerLines(b) ==
    [i \in 1..(IF Len(Lines(b)) > 2 THEN Len(Lines(b)) - 2 ELSE 0) |->
        Lines(b)[i + 1]]

\* C4: a block classified as Code is built without the inline resolver, as
\* pre > code > untagged leaf whose value is the inner lines joined by
\* newlines, with a newline appended when that is non-empty; the inline
\* markers stay in the value and no delimiter error is raised.
C4_CodeIsRaw ==
    fn = "block_to_html_node" /\ block_type = BlockType_CODE =>
        LET body == join(<<"\n">>, InnerLines(block))
            value == IF body = <<>> THEN <<>> ELSE body \o <<"\n">>
        IN  /\ raised = "none"
            /\ html_node =
                  <<ParentNode(Some(<<"p", "r", "e">>),
                        Some(<<ParentNode(Some(<<"c", "o", "d", "e">>),
                                   Some(<<LeafNode(None, Some(value), None)>>),
                                   None)>>),
                        None)>>

\* a code block whose body holds one unclosed "_"
C4_Witness ==
    /\ fn = "block_to_html_node"
    /\ block_type = BlockType_CODE
    /\ raised = "none"
    /\ Len(Lines(block)) = 3
    /\ Len(split(Lines(block)[2], <<"_">>)) = 2

(***************************************************************************)
(* Properties of the delimiter pass                                        *)
(***************************************************************************)
InlinePasses == {"split_nodes_delimiter", "split_nodes_image", "split_nodes_link"}

IsPlain(node) == node.text_type = TextType_TEXT

\* the start indexes of the occurrences of sub in s, counted left to right
\* without overlap from index pos
RECURSIVE Occurrences(_, _, _)
Occurrences(s, sub, pos) ==
    IF pos + Len(sub) - 1 > Len(s) THEN <<>>
    ELSE IF SubSeq(s, pos, pos + Len(sub) - 1) = sub
         THEN <<pos>> \o Occurrences(s, sub, pos + Len(sub))
         ELSE Occurrences(s, sub, pos + 1)

OddDelimiters(node, delim) ==
    /\ IsPlain(node)
    /\ Len(Occurrences(node.text, delim, 1)) % 2 = 1

\* C5: split_nodes_delimiter raises ValueError, and returns no list, exactly
\* when some Plain span of its input holds the delimiter an odd number of
\* times, counted as non-overlapping occurrences from the left
C5_RaisesIffOddCount ==
    fn = "split_nodes_delimiter" =>
        /\ raised \in {"none", "ValueError"}
        /\ raised = "ValueError" <=>
              \E i \in 1..Len(old_nodes) : OddDelimiters(old_nodes[i], delimiter)
        /\ raised = "ValueError" => new_nodes = <<>>

\* a raise caused by a Plain span that is not the first span of the input
C5_Witness ==
    /\ fn = "split_nodes_delimiter"
    /\ raised = "ValueError"
    /\ Len(old_nodes) >= 2
    /\ ~OddDelimiters(old_nodes[1], delimiter)

\* the texts around the occurrences occ of sub in s
FragmentsAt(s, sub, occ) ==
    [k \in 1..(Len(occ) + 1) |->
        SubSeq(s, IF k = 1 THEN 1 ELSE occ[k - 1] + Len(sub),
                  IF k = Len(occ) + 1 THEN Len(s) ELSE occ[k] - 1)]

Fragments(s, sub) == FragmentsAt(s, sub, Occurrences(s, sub, 1))

\* the spans of the fragments from the k-th on: odd k (even position counted
\* from 0) is Plain, even k carries ttype, an empty fragment gives no span
RECURSIVE Alternate(_, _, _)
Alternate(frags, k, ttype) ==
    IF k > Len(frags) THEN <<>>
    ELSE (IF frags[k] = <<>> THEN <<>>
          ELSE <<TextNode(frags[k],
                          IF k % 2 = 1 THEN TextType_TEXT ELSE ttype, None)>>)
         \o Alternate(frags, k + 1, ttype)

FragmentSpans(node, delim, ttype) ==
    IF IsPlain(node) THEN Alternate(Fragments(node.text, delim), 1, ttype)
    ELSE <<node>>

\* C6: when split_nodes_delimiter succeeds, each Plain span is replaced by the
\* spans of its fragments in order, Plain and the pass's type alternating from
\* Plain, and no span with empty content comes out of a Plain span
C6_FragmentsAlternateEmptiesDropped ==
    (fn = "split_nodes_delimiter" /\ raised = "none") =>
        /\ new_nodes = extend([i \in 1..Len(old_nodes) |->
                                 FragmentSpans(old_nodes[i], delimiter, text_type)])
        /\ \A j \in 1..Len(new_nodes) :
              new_nodes[j].text = <<>> =>
                  \E i \in 1..Len(old_nodes) :
                      ~IsPlain(old_nodes[i]) /\ old_nodes[i] = new_nodes[j]

\* one Plain span with an empty fragment, of which one typed span is left
C6_Witness ==
    /\ fn = "split_nodes_delimiter"
    /\ raised = "none"
    /\ Len(old_nodes) = 1
    /\ IsPlain(old_nodes[1])
    /\ \E k \in 1..Len(Fragments(old_nodes[1].text, delimiter)) :
          Fragments(old_nodes[1].text, delimiter)[k] = <<>>
    /\ Len(new_nodes) = 1
    /\ new_nodes[1].text_type = text_type

(***************************************************************************)
(* Properties of the passes on spans that are not Plain                    *)
(***************************************************************************)
\* the pass the last call ran, run on a list of its own
PassOn(nodes) ==
    CASE fn = "split_nodes_delimiter" ->
            split_nodes_delimiter(nodes, delimiter, text_type)
      [] fn = "split_nodes_image" -> Ok(split_nodes_image(nodes))
      [] fn = "split_nodes_link" -> Ok(split_nodes_link(nodes))

\* what a span contributes when only Plain spans are looked at
FramePiece(node) ==
    IF IsPlain(node) THEN PassOn(<<node>>) ELSE Ok(<<node>>)

FrameHolds(pieces) ==
    /\ raised = "none" <=> \A i \in 1..Len(pieces) : pieces[i].exc = "none"
    /\ raised = "none" =>
          new_nodes = extend([i \in 1..Len(pieces) |-> pieces[i].val])

\* C7: each of the three passes returns its non-Plain spans as they are, each
\* at its place among what the Plain spans gave, and raises only for a Plain
\* span: no non-Plain span is split, re-tagged, dropped or checked
C7_NonPlainPassThrough ==
    fn \in InlinePasses =>
        FrameHolds([i \in 1..Len(old_nodes) |-> FramePiece(old_nodes[i])])

\* the link pass was handed a non-Plain span whose content is a link
C7_Witness ==
    /\ fn = "split_nodes_link"
    /\ \E i \in 1..Len(old_nodes) :
          /\ ~IsPlain(old_nodes[i])
          /\ extract_markdown_links(old_nodes[i].text) # <<>>
          /\ \E j \in 1..Len(new_nodes) : new_nodes[j] = old_nodes[i]

(***************************************************************************)
(* Properties of the image and link passes                                 *)
(***************************************************************************)
PlainIfNonEmpty(text) ==
    IF text = <<>> THEN <<>> ELSE <<TextNode(text, TextType_TEXT, None)>>

\* the matches of the image pattern in s from index pos, with their places
RECURSIVE ImageMatches(_, _)
ImageMatches(s, pos) ==
    IF pos > Len(s) THEN <<>>
    ELSE LET m == image_at(s, pos)
         IN  IF m.ok
             THEN <<[start |-> pos, end |-> m.end, text |-> m.text, url |-> m.url]>>
                  \o ImageMatches(s, m.end + 1)
             ELSE ImageMatches(s, pos + 1)

\* the matches of the link pattern in s from index pos, with their places
RECURSIVE LinkMatches(_, _)
LinkMatches(s, pos) ==
    IF pos > Len(s) THEN <<>>
    ELSE LET m == link_at(s, pos)
         IN  IF m.ok
             THEN <<[start |-> pos, end |-> m.end, text |-> m.text, url |-> m.url]>>
                  \o LinkMatches(s, m.end + 1)
             ELSE LinkMatches(s, pos + 1)

\* for each match the non-empty text between the match before it (or index
\* from) and the match, then a span of the kind; last the non-empty rest
RECURSIVE SpansByPosition(_, _, _, _)
SpansByPosition(s, from, matches, kind) ==
    IF matches = <<>> THEN PlainIfNonEmpty(SubSeq(s, from, Len(s)))
    ELSE PlainIfNonEmpty(SubSeq(s, from, matches[1].start - 1))
         \o <<TextNode(matches[1].text, kind, Some(matches[1].url))>>
         \o SpansByPosition(s, matches[1].end + 1, Tail(matches), kind)

\* the text of a span list, every Image span written as ![alt](url)
RECURSIVE Rendered(_)
Rendered(nodes) ==
    IF nodes = <<>> THEN <<>>
    ELSE (IF nodes[1].text_type = TextType_IMAGE
          THEN <<"!", "[">> \o nodes[1].text \o <<"]", "(">>
               \o nodes[1].url[1] \o <<")">>
          ELSE nodes[1].text)
         \o Rendered(Tail(nodes))

ImageSpans(node) ==
    IF IsPlain(node)
    THEN SpansByPosition(node.text, 1, ImageMatches(node.text, 1), TextType_IMAGE)
    ELSE <<node>>

ImageSpansOrSame(node, matches) ==
    IF IsPlain(node) /\ matches # <<>>
    THEN SpansByPosition(node.text, 1, matches, TextType_IMAGE)
    ELSE <<node>>

\* C8 as stated: every Plain span is replaced by the Plain and Image spans of
\* its matches, a Plain span only for non-empty text, and the output written
\* back with ![alt](url) for each Image span is the input text
C8_ImageSpansOfEveryPlainSpan ==
    fn = "split_nodes_image" =>
        /\ new_nodes = extend([i \in 1..Len(old_nodes) |-> ImageSpans(old_nodes[i])])
        /\ Rendered(new_nodes) = Rendered(old_nodes)

\* C8: a Plain span without a match is returned as it is, the empty one too;
\* a Plain span with matches is replaced by the Plain and Image spans of its
\* matches, a Plain span only for non-empty text; the output written back
\* with ![alt](url) for each Image span is the input text
C8_ImageSpansOrUnchanged ==
    fn = "split_nodes_image" =>
        /\ new_nodes = extend([i \in 1..Len(old_nodes) |->
                                 ImageSpansOrSame(old_nodes[i],
                                                  ImageMatches(old_nodes[i].text, 1))])
        /\ Rendered(new_nodes) = Rendered(old_nodes)

\* one Plain span with text, an image and text again
C8_Witness ==
    /\ fn = "split_nodes_image"
    /\ Len(old_nodes) = 1
    /\ IsPlain(old_nodes[1])
    /\ Len(new_nodes) = 3
    /\ IsPlain(new_nodes[1])
    /\ new_nodes[2].text_type = TextType_IMAGE
    /\ IsPlain(new_nodes[3])

\* the Plain text right before the j-th span, empty when there is none
PrecedingPlain(nodes, j) ==
    IF j > 1 /\ IsPlain(nodes[j - 1]) THEN nodes[j - 1].text ELSE <<>>

LinkIndexes(nodes) ==
    SelectSeq([j \in 1..Len(nodes) |-> j],
              LAMBDA j : nodes[j].text_type = TextType_LINK)

\* for each Link span: the Plain text before it, its text and its url
LinkContextsAt(nodes, idx) ==
    [k \in 1..Len(idx) |->
        <<PrecedingPlain(nodes, idx[k]), nodes[idx[k]].text, nodes[idx[k]].url>>]

\* for each match: the input text between the match before it and the match
MatchContexts(s, matches) ==
    [k \in 1..Len(matches) |->
        <<SubSeq(s, IF k = 1 THEN 1 ELSE matches[k - 1].end + 1,
                    matches[k].start - 1),
          matches[k].text, Some(matches[k].url)>>]

\* C9: split_nodes_link on a Plain span gives one Link span per match of the
\* link pattern, none for the bracket part of an image, and the Plain text
\* before each Link span is the input text that precedes that match
C9_LinkAfterItsOwnText ==
    (fn = "split_nodes_link" /\ Len(old_nodes) = 1 /\ IsPlain(old_nodes[1])) =>
        LinkContextsAt(new_nodes, LinkIndexes(new_nodes))
            = MatchContexts(old_nodes[1].text, LinkMatches(old_nodes[1].text, 1))

(***************************************************************************)
(* Properties of the span-to-leaf mapping                                  *)
(***************************************************************************)
TagOf(ttype) ==
    CASE ttype = TextType_TEXT -> None
      [] ttype = TextType_BOLD -> Some(<<"b">>)
      [] ttype = TextType_ITALIC -> Some(<<"i">>)
      [] ttype = TextType_CODE -> Some(<<"c", "o", "d", "e">>)
      [] ttype = TextType_LINK -> Some(<<"a">>)
      [] ttype = TextType_IMAGE -> Some(<<"i", "m", "g">>)

IsLeafOf(leaf, span) ==
    /\ leaf.class = "LeafNode"
    /\ leaf.tag = TagOf(span.text_type)
    /\ leaf.value = IF span.text_type = TextType_IMAGE THEN Some(<<>>)
                    ELSE Some(span.text)
    /\ leaf.props = IF span.text_type = TextType_LINK
                    THEN Some(<<<<<<"h", "r", "e", "f">>, span.url>>>>)
                    ELSE IF span.text_type = TextType_IMAGE
                    THEN Some(<<<<<<"s", "r", "c">>, span.url>>, <<<<"a", "l", "t">>, Some(span.text)>>>>)
                    ELSE None

\* C10: the leaf of a span has no tag for Plain and the tags b, i, code, a,
\* img for the other kinds; its value is the content, the empty string for
\* an Image; a Link has the one attribute href, an Image src and then alt
C10_LeafOfEachKind ==
    fn = "text_to_children" =>
        /\ Len(html_nodes) = Len(new_nodes)
        /\ \A i \in 1..Len(new_nodes) : IsLeafOf(html_nodes[i], new_nodes[i])

\* leaves made of a list that holds an Image span, a Link span and another
C10_Witness ==
    /\ fn = "text_to_children"
    /\ Len(html_nodes) >= 3
    /\ \E i \in 1..Len(new_nodes) :
          new_nodes[i].text_type = TextType_IMAGE /\ new_nodes[i].text # <<>>
    /\ \E i \in 1..Len(new_nodes) : new_nodes[i].text_type = TextType_LINK

(***************************************************************************)
(* Properties of serialization                                             *)
(***************************************************************************)
IsLeaf(node) == node.class = "LeafNode"

\* a Parent without a tag or without a children sequence, a Leaf without a
\* value, at node or anywhere below it
RECURSIVE HasBrokenNode(_)
HasBrokenNode(node) ==
    IF IsLeaf(node) THEN node.value = None
    ELSE \/ node.tag = None
         \/ node.children = None
         \/ \E i \in 1..Len(node.children[1]) : HasBrokenNode(node.children[1][i])

EmptyDiv == ParentNode(Some(<<"d", "i", "v">>), Some(<<>>), None)

EmptyDivHtml ==
    <<"<", "d", "i", "v", ">", "<", "/", "d", "i", "v", ">">>

\* C11: to_html raises exactly when a Parent of the tree has no tag or no
\* children sequence or a Leaf has no value; a Parent with an empty children
\* sequence and a Leaf with an empty value are serialized, the empty div as
\* <div></div>
C11_RaisesIffBrokenNode ==
    fn = "to_html" =>
        /\ raised \in {"none", "ValueError"}
        /\ raised = "ValueError" <=> HasBrokenNode(html_node[1])
        /\ html_node[1] = EmptyDiv => html = EmptyDivHtml

\* a tree that holds a Leaf with an empty value and is serialized
C11_Witness ==
    /\ fn = "to_html"
    /\ raised = "none"
    /\ ~IsLeaf(html_node[1])
    /\ \E i \in 1..Len(html_node[1].children[1]) :
          /\ IsLeaf(html_node[1].children[1][i])
          /\ html_node[1].children[1][i].value = Some(<<>>)

\* per attribute in the mapping's order: a space, the key, =", the value, "
RECURSIVE AttrsText(_)
AttrsText(pairs) ==
    IF pairs = <<>> THEN <<>>
    ELSE <<" ">> \o pairs[1][1] \o <<"=">> \o <<"\"">> \o pairs[1][2][1]
         \o <<"\"">> \o AttrsText(Tail(pairs))

OpenTag(node) ==
    <<"<">> \o node.tag[1]
    \o (IF node.props = None THEN <<>> ELSE AttrsText(node.props[1]))
    \o <<">">>

CloseTag(node) == <<"<", "/">> \o node.tag[1] \o <<">">>

\* the serializations of the children one after the other
RECURSIVE ChildrenText(_)
ChildrenText(children) ==
    IF children = <<>> THEN <<>>
    ELSE to_html(children[1]).val \o ChildrenText(Tail(children))

\* C12: a serialized Leaf without a tag is its value; a tagged Leaf is
\* <tag attrs>value</tag>; a Parent is <tag attrs>, its children's
\* serializations in child order with nothing between them, then </tag>
C12_SerializedForm ==
    (fn = "to_html" /\ raised = "none") =>
        html = IF IsLeaf(html_node[1])
               THEN IF html_node[1].tag = None THEN html_node[1].value[1]
                    ELSE OpenTag(html_node[1]) \o html_node[1].value[1]
                         \o CloseTag(html_node[1])
               ELSE OpenTag(html_node[1])
                    \o ChildrenText(html_node[1].children[1])
                    \o CloseTag(html_node[1])

\* a serialized Parent with attributes over two children, the second a
\* Parent with children of its own
C12_Witness ==
    /\ fn = "to_html"
    /\ raised = "none"
    /\ ~IsLeaf(html_node[1])
    /\ html_node[1].props # None
    /\ Len(html_node[1].children[1]) = 2
    /\ ~IsLeaf(html_node[1].children[1][2])
    /\ html_node[1].children[1][2].children[1] # <<>>

(***************************************************************************)
(* Properties of document conversion                                       *)
(***************************************************************************)
\* C13: when markdown_to_html_node returns, it returns a Parent with tag div
\* whose children are the nodes of the blocks of markdown_to_blocks, one per
\* block in their order; a document without blocks gives a div with an empty
\* children sequence, which to_html writes as <div></div>
C13_DivOfBlockNodes ==
    /\ (fn = "markdown_to_html_node" /\ raised = "none") =>
          /\ blocks = markdown_to_blocks(markdown)
          /\ ~IsLeaf(html_node[1])
          /\ html_node[1].tag = Some(<<"d", "i", "v">>)
          /\ html_node[1].props = None
          /\ html_node[1].children # None
          /\ Len(html_node[1].children[1]) = Len(blocks)
          /\ \A i \in 1..Len(blocks) :
                Ok(html_node[1].children[1][i]) = block_to_html_node(blocks[i])
    /\ (fn = "markdown_to_html_node" /\ markdown_to_blocks(markdown) = <<>>) =>
          (raised = "none" /\ html_node = <<EmptyDiv>>)
    /\ (fn = "to_html" /\ markdown_to_blocks(markdown) = <<>>) =>
          (raised = "none" /\ html = EmptyDivHtml)

\* a document of two blocks of different kinds, converted
C13_Witness ==
    /\ fn = "markdown_to_html_node"
    /\ raised = "none"
    /\ Len(blocks) = 2
    /\ block_to_block_type(blocks[1]) # block_to_block_type(blocks[2])
    /\ html_node[1].children[1][1] # html_node[1].children[1][2]

(***************************************************************************)
(* Properties of title extraction                                          *)
(***************************************************************************)
IsTitleLine(line) == Len(line) >= 2 /\ line[1] = "#" /\ line[2] = " "

\* the lines of md that start with "# ", by their numbers
TitleLines(md) == {i \in 1..Len(Lines(md)) : IsTitleLine(Lines(md)[i])}

\* C14: extract_title raises exactly when no line of the document starts with
\* "# "; otherwise it returns the text after the first two characters of the
\* first such line, trimmed of whitespace
C14_TitleOfFirstH1Line ==
    fn = "extract_title" =>
        /\ raised \in {"none", "Exception"}
        /\ raised = "Exception" <=> TitleLines(markdown) = {}
        /\ raised = "none" =>
              \E i \in TitleLines(markdown) :
                  /\ \A j \in TitleLines(markdown) : i <= j
                  /\ IsTrimOf(title, SubSeq(Lines(markdown)[i], 3,
                                            Len(Lines(markdown)[i])))

\* a title taken from the second line, after a line of two hashes, and
\* trimmed on its left
C14_Witness ==
    /\ fn = "extract_title"
    /\ raised = "none"
    /\ Len(Lines(markdown)) >= 2
    /\ startswith(Lines(markdown)[1], <<"#", "#", " ">>)
    /\ startswith(Lines(markdown)[2], <<"#", " ", " ">>)
    /\ title # <<>>

(***************************************************************************)
(* Properties of error propagation                                         *)
(***************************************************************************)
\* the number of "#" characters b starts with
LeadingHashes(b) ==
    CHOOSE k \in 0..Len(b) :
        /\ \A j \in 1..k : b[j] = "#"
        /\ k = Len(b) \/ b[k + 1] # "#"

\* the number of characters of the prefix "{i}. "
PrefixLen(i) == Len(int_to_str(i)) + 2

\* the texts of b that are resolved inline, given its kind
InlineTextsOf(b, kind) ==
    CASE kind = BlockType_PARAGRAPH -> {join(<<" ">>, Lines(b))}
      [] kind = BlockType_HEADING -> {SubSeq(b, LeadingHashes(b) + 2, Len(b))}
      [] kind = BlockType_QUOTE ->
            {join(<<" ">>, [i \in 1..Len(Lines(b)) |->
                               lstrip(Tail(Lines(b)[i]))])}
      [] kind = BlockType_UNORDERED_LIST ->
            {SubSeq(Lines(b)[i], 3, Len(Lines(b)[i])) : i \in 1..Len(Lines(b))}
      [] kind = BlockType_ORDERED_LIST ->
            {SubSeq(Lines(b)[i], PrefixLen(i) + 1, Len(Lines(b)[i])) :
                i \in 1..Len(Lines(b))}
      [] kind = BlockType_CODE -> {}

\* a delimiter of text is opened and not closed
Unclosed(text) == text_to_textnodes(text).exc = "ValueError"

HasUnclosed(b) ==
    \E text \in InlineTextsOf(b, block_to_block_type(b)) : Unclosed(text)

\* C15: markdown_to_html_node raises the delimiter error exactly when the
\* inline text of some block that is not Code, wherever it stands in the
\* block list, has an unclosed delimiter, and then it returns no tree
C15_DelimiterErrorPropagates ==
    fn = "markdown_to_html_node" =>
        /\ raised \in {"none", "ValueError"}
        /\ raised = "ValueError" <=>
              \E i \in 1..Len(markdown_to_blocks(markdown)) :
                  HasUnclosed(markdown_to_blocks(markdown)[i])
        /\ raised = "ValueError" => html_node = <<>>

\* the error of a block that follows a block that was built
C15_Witness ==
    /\ fn = "markdown_to_html_node"
    /\ raised = "ValueError"
    /\ html_node = <<>>
    /\ Len(blocks) >= 2
    /\ ~HasUnclosed(blocks[1])
    /\ block_to_html_node(blocks[1]).exc = "none"

(***************************************************************************)
(* Properties of the list builders                                         *)
(***************************************************************************)
\* line i of a list block without its prefix: "- " or "{i}. "
ItemText(line, i, kind) ==
    IF kind = BlockType_UNORDERED_LIST THEN SubSeq(line, 3, Len(line))
    ELSE SubSeq(line, PrefixLen(i) + 1, Len(line))

ListTag(kind) ==
    IF kind = BlockType_UNORDERED_LIST THEN <<"u", "l">> ELSE <<"o", "l">>

IsItemOf(li, text) ==
    /\ ~IsLeaf(li)
    /\ li.tag = Some(<<"l", "i">>)
    /\ li.props = None
    /\ li.children = Some(text_to_children(text).val)

\* C16: the node of an UnorderedList or OrderedList block is ul or ol with
\* one li per line in line order, the children of the i-th li being the
\* inline resolution of line i without its prefix, "- " or "{i}. ", and
\* without anything else removed
C16_OneItemPerLine ==
    (fn = "block_to_html_node"
        /\ block_type \in {BlockType_UNORDERED_LIST, BlockType_ORDERED_LIST}) =>
        /\ raised = "none" <=>
              \A i \in 1..Len(Lines(block)) :
                  ~Unclosed(ItemText(Lines(block)[i], i, block_type))
        /\ raised = "none" =>
              /\ ~IsLeaf(html_node[1])
              /\ html_node[1].tag = Some(ListTag(block_type))
              /\ html_node[1].children # None
              /\ Len(html_node[1].children[1]) = Len(Lines(block))
              /\ \A i \in 1..Len(Lines(block)) :
                    IsItemOf(html_node[1].children[1][i],
                             ItemText(Lines(block)[i], i, block_type))

\* an ordered list of ten lines whose tenth item starts with a space
C16_Witness ==
    /\ fn = "block_to_html_node"
    /\ block_type = BlockType_ORDERED_LIST
    /\ raised = "none"
    /\ Len(Lines(block)) = 10
    /\ html_node[1].children[1][10].children = Some(<<LeafNode(None, Some(<<" ", "a">>), None)>>)

(***************************************************************************)
(* Properties of the trees of documents                                    *)
(***************************************************************************)
KnownBlockTypes ==
    {BlockType_PARAGRAPH, BlockType_HEADING, BlockType_CODE, BlockType_QUOTE,
     BlockType_UNORDERED_LIST, BlockType_ORDERED_LIST}

\* the Leaves of the tree under node, left to right
RECURSIVE LeavesOf(_)
LeavesOf(node) ==
    IF IsLeaf(node) THEN <<node>>
    ELSE IF node.children = None THEN <<>>
    ELSE extend([i \in 1..Len(node.children[1]) |-> LeavesOf(node.children[1][i])])

\* C17: the tree markdown_to_html_node returns has a tag and a children
\* sequence at every Parent and a value at every Leaf, the empty value of an
\* img leaf or of an empty code body included, so to_html does not raise on
\* it; and every block has one of the six types, so the last branch of
\* block_to_html_node is not taken
C17_TreeIsSerializable ==
    /\ (fn = "markdown_to_html_node" /\ raised = "none") =>
          ~HasBrokenNode(html_node[1])
    /\ fn = "markdown_to_html_node" =>
          \A i \in 1..Len(blocks) : block_to_block_type(blocks[i]) \in KnownBlockTypes
    /\ (fn = "to_html" /\ markdown_to_html_node(markdown).exc = "none") =>
          raised = "none"

\* a serialized document with an img leaf and the empty leaf of a code block
C17_Witness ==
    /\ fn = "to_html"
    /\ raised = "none"
    /\ html # <<>>
    /\ \E i \in 1..Len(LeavesOf(html_node[1])) :
          /\ LeavesOf(html_node[1])[i].tag = Some(<<"i", "m", "g">>)
          /\ LeavesOf(html_node[1])[i].value = Some(<<>>)
    /\ \E i \in 1..Len(LeavesOf(html_node[1])) :
          /\ LeavesOf(html_node[1])[i].tag = None
          /\ LeavesOf(html_node[1])[i].value = Some(<<>>)

(***************************************************************************)
(* Properties of code blocks and of the classification rules               *)
(***************************************************************************)
EmptyPre ==
    ParentNode(Some(<<"p", "r", "e">>),
               Some(<<ParentNode(Some(<<"c", "o", "d", "e">>),
                                 Some(<<LeafNode(None, Some(<<>>), None)>>),
                                 None)>>),
               None)

EmptyPreHtml ==
    <<"<", "p", "r", "e", ">", "<", "c", "o", "d", "e", ">",
      "<", "/", "c", "o", "d", "e", ">", "<", "/", "p", "r", "e", ">">>

\* b with nothing but the fence on its first and on its last line
BareFenced(b) ==
    join(<<"\n">>, <<Fence>> \o InnerLines(b) \o <<Fence>>)

\* C18: the node of a Code block is the node of the block with bare fences
\* for its first and last line, whatever these two lines hold; a Code block
\* of fewer than three lines builds pre > code > a Leaf with the empty
\* string, written <pre><code></code></pre>
C18_FenceLinesDropped ==
    (fn = "block_to_html_node" /\ block_type = BlockType_CODE) =>
        /\ raised = "none"
        /\ Len(Lines(block)) >= 3 =>
              Ok(html_node[1]) = block_to_html_node(BareFenced(block))
        /\ Len(Lines(block)) < 3 =>
              /\ html_node[1] = EmptyPre
              /\ to_html(html_node[1]) = Ok(EmptyPreHtml)

\* a Code block of three lines with text after its opening fence and a
\* code line that is not empty
C18_Witness ==
    /\ fn = "block_to_html_node"
    /\ block_type = BlockType_CODE
    /\ Len(Lines(block)) = 3
    /\ Lines(block)[1] # Fence
    /\ Lines(block)[2] # <<>>
    /\ html_node[1] # EmptyPre

\* the rules of block_to_block_type that b satisfies, by the type they give
RulesMatching(b) ==
    {kind \in KnownBlockTypes :
        \/ kind = BlockType_HEADING /\ is_heading(b)
        \/ kind = BlockType_CODE /\ is_code(b)
        \/ kind = BlockType_QUOTE /\ is_quote(Lines(b))
        \/ kind = BlockType_UNORDERED_LIST /\ is_unordered_list(Lines(b))
        \/ kind = BlockType_ORDERED_LIST /\ is_ordered_list(Lines(b))}

\* C19: no block satisfies more than one of the Heading, Code, Quote,
\* UnorderedList and OrderedList rules, so the type returned is the type of
\* the only rule that matches, whatever the order of the tests
C19_RulesAreExclusive ==
    fn \in {"block_to_block_type", "block_to_html_node"} =>
        /\ Cardinality(RulesMatching(block)) <= 1
        /\ RulesMatching(block) # {} => RulesMatching(block) = {block_type}
        /\ RulesMatching(block) = {} => block_type = BlockType_PARAGRAPH

\* a Heading block with a later line that starts as a quote line does
C19_Witness ==
    /\ fn = "block_to_block_type"
    /\ block_type = BlockType_HEADING
    /\ Len(Lines(block)) >= 2
    /\ startswith(Lines(block)[2], <<">">>)

(***************************************************************************)
(* Properties of fenced regions with a blank line                          *)
(***************************************************************************)
HasText(line) == \E i \in 1..Len(line) : line[i] \notin Whitespace

\* the delimiter whose pass raises on text, "none" when no pass does
RaisedBy(text) ==
    IF split_nodes_delimiter(<<TextNode(text, TextType_TEXT, None)>>,
                             <<"*", "*">>, TextType_BOLD).exc # "none"
    THEN <<"*", "*">>
    ELSE IF then_delimiter(
                split_nodes_delimiter(<<TextNode(text, TextType_TEXT, None)>>,
                                      <<"*", "*">>, TextType_BOLD),
                <<"_">>, TextType_ITALIC).exc # "none"
    THEN <<"_">>
    ELSE IF text_to_textnodes(text).exc # "none" THEN <<BACKTICK>>
    ELSE <<"n", "o", "n", "e">>

\* the first segment starts with the fence, does not end with it and is a
\* Paragraph, and the conversion raises and builds nothing
FirstSegmentIsOpenParagraph ==
    /\ blocks # <<>>
    /\ startswith(blocks[1], Fence)
    /\ ~endswith(blocks[1], Fence)
    /\ block_to_block_type(blocks[1]) = BlockType_PARAGRAPH
    /\ raised = "ValueError"
    /\ html_node = <<>>

HasDelimiter(s) ==
    contains(s, <<"_">>) \/ contains(s, <<BACKTICK>>) \/ contains(s, <<"*", "*">>)

\* the content of a span, and its url when it has one, hold no delimiter
DelimiterFree(node) ==
    /\ ~HasDelimiter(node.text)
    /\ node.url # None => ~HasDelimiter(node.url[1])

\* the links and images written in text of which the text or the url holds "_"
UnderscoredMatches(text) ==
    {m \in {extract_markdown_links(text)[i] :
                i \in 1..Len(extract_markdown_links(text))}
           \cup {extract_markdown_images(text)[i] :
                i \in 1..Len(extract_markdown_images(text))} :
        contains(m[1], <<"_">>) \/ contains(m[2], <<"_">>)}

\* C21: in a span list returned by text_to_textnodes no Plain, Link or Image
\* span holds "_", a backtick or "**" in its content or url; a link or image
\* written with "_" in its text or url is not among the Link and Image spans
\* returned: the call raises, or no span has its text and url
C21_NoDelimiterLeft ==
    (fn = "text_to_textnodes" /\ raised = "none") =>
        /\ \A i \in 1..Len(new_nodes) :
              new_nodes[i].text_type
                  \in {TextType_TEXT, TextType_LINK, TextType_IMAGE}
              => DelimiterFree(new_nodes[i])
        /\ \A m \in UnderscoredMatches(old_nodes[1].text) :
              \A i \in 1..Len(new_nodes) :
                  new_nodes[i].text_type \in {TextType_LINK, TextType_IMAGE}
                  => ~(new_nodes[i].text = m[1] /\ new_nodes[i].url = Some(m[2]))

\* the link of text "a" and url "__" is given, the call returns, and what is
\* returned holds no Link span
C21_Witness ==
    /\ fn = "text_to_textnodes"
    /\ raised = "none"
    /\ old_nodes[1].text = <<"[", "a", "]", "(", "_", "_", ")">>
    /\ Len(new_nodes) = 2
    /\ \A i \in 1..Len(new_nodes) : new_nodes[i].text_type = TextType_TEXT

\* the number of "_" in the content of a span
Underscores(node) == Len(Occurrences(node.text, <<"_">>, 1))

\* C22: for a text _x **y** z_ with x, y and z non-empty and without
\* delimiters, the bold pass returns two Plain spans, each holding one "_",
\* and Bold spans only besides them, and text_to_textnodes raises ValueError
\* and returns nothing although the text holds "_" twice
C22_EvennessIsPerSpan ==
    /\ (/\ fn = "split_nodes_delimiter"
        /\ delimiter = <<"*", "*">>
        /\ Len(old_nodes) = 1
        /\ IsPlain(old_nodes[1]))
       => /\ raised = "none"
          /\ Cardinality({i \in 1..Len(new_nodes) : IsPlain(new_nodes[i])}) = 2
          /\ \A i \in 1..Len(new_nodes) :
                IF IsPlain(new_nodes[i])
                THEN Underscores(new_nodes[i]) = 1
                ELSE new_nodes[i].text_type = TextType_BOLD
    /\ fn = "text_to_textnodes"
       => /\ Underscores(old_nodes[1]) = 2
          /\ raised = "ValueError"
          /\ new_nodes = <<>>

\* text_to_textnodes has raised on _a **a** a_
C22_Witness ==
    /\ fn = "text_to_textnodes"
    /\ raised = "ValueError"
    /\ old_nodes[1].text = NestedText(<<"a">>, <<"a">>, <<"a">>)

(***************************************************************************)
(* Properties of the title against the headings of the converted tree      *)
(***************************************************************************)
\* the div holds an h1
HasH1(node) ==
    \E i \in 1..Len(node.children[1]) :
        node.children[1][i].tag = Some(<<"h", "1">>)

\* a line starting with "# " lies between the fence lines of a Code block
TitleLineInsideCode ==
    \E k \in 1..Len(blocks) :
        /\ block_to_block_type(blocks[k]) = BlockType_CODE
        /\ \E j \in 2..(Len(Lines(blocks[k])) - 1) :
              IsTitleLine(Lines(blocks[k])[j])

\* a line starting with "# " is a line of a Paragraph block after its first
TitleLineLaterInParagraph ==
    \E k \in 1..Len(blocks) :
        /\ block_to_block_type(blocks[k]) = BlockType_PARAGRAPH
        /\ \E j \in 2..Len(Lines(blocks[k])) :
              IsTitleLine(Lines(blocks[k])[j])

\* the heading of unit, "# " and its text, stands after whitespace on its line
LedByWhitespace(unit) ==
    /\ IsTitleLine(strip(unit))
    /\ Len(lstrip(unit)) < Len(unit)
    /\ unit[Len(unit) - Len(lstrip(unit))] # "\n"

\* a heading block of the document begins with whitespace before "# "
HeadingAfterWhitespace ==
    \E k \in 1..Len(split(markdown, <<"\n", "\n">>)) :
        LedByWhitespace(split(markdown, <<"\n", "\n">>)[k])

\* extract_title has returned the trimmed text of the one line starting with
\* "# " and the tree holds no h1
TitleWithoutH1 ==
    /\ raised = "none"
    /\ \A i \in TitleLines(markdown) :
          IsTrimOf(title, SubSeq(Lines(markdown)[i], 3, Len(Lines(markdown)[i])))
    /\ ~HasH1(html_node[1])

\* the tree holds an h1 and extract_title has raised
H1WithoutTitle ==
    /\ HasH1(html_node[1])
    /\ raised = "Exception"
    /\ title = <<>>

\* C23 as stated: when the only line starting with "# " lies inside a fenced
\* code block or after the first line of a paragraph, extract_title returns
\* its text and the tree holds no h1; when a heading block begins with
\* whitespace before "# ", the tree holds an h1 and extract_title raises
C23_TitleDisagreesWithH1 ==
    fn = "generate_page" =>
        /\ (/\ Cardinality(TitleLines(markdown)) = 1
            /\ TitleLineInsideCode \/ TitleLineLaterInParagraph)
           => TitleWithoutH1
        /\ HeadingAfterWhitespace => H1WithoutTitle

\* C23: when the only line starting with "# " lies inside a fenced code
\* block or after the first line of a paragraph and no heading block begins
\* with whitespace before "# ", extract_title returns its text and the tree holds
\* no h1; when a heading block begins with whitespace before "# " and no line
\* starts with "# ", the tree holds an h1 and extract_title raises
C23_TitleDisagreesWithoutOtherHeading ==
    fn = "generate_page" =>
        /\ (/\ Cardinality(TitleLines(markdown)) = 1
            /\ TitleLineInsideCode \/ TitleLineLaterInParagraph
            /\ ~HeadingAfterWhitespace)
           => TitleWithoutH1
        /\ (HeadingAfterWhitespace /\ TitleLines(markdown) = {})
           => H1WithoutTitle

\* the title "c" taken from inside the code block of a page without h1
C23_Witness ==
    /\ fn = "generate_page"
    /\ markdown = Fence \o <<"\n", "#", " ", "c", "\n">> \o Fence
    /\ title = <<"c">>
    /\ raised = "none"
    /\ ~HasH1(html_node[1])
====
